---- MODULE Spec2Model ----
(***************************************************************************)
(* A model of the identicon crate: Identicon::new / mode / foreground /    *)
(* pixels / image (src/src/lib.rs), the affine rescale map() and the       *)
(* HSL -> RGB conversion (src/src/hsl.rs).                                 *)
(*                                                                         *)
(* All floating point of the crate is f32.  An f32 value is modelled       *)
(* exactly, as a record [sg, m, e] standing for (-1)^sg * m * 2^e with     *)
(* 2^23 <= m < 2^24 (or m = 0 for zero), and every operation rounds to     *)
(* nearest, ties to even, as IEEE-754 binary32 does.  The values the crate *)
(* computes stay far inside the normal range of f32, so subnormals,        *)
(* infinities and NaN are not represented.                                 *)
(***************************************************************************)
EXTENDS Integers, Sequences, FiniteSets

----------------------------------------------------------------------------
(* f32 arithmetic *)

RECURSIVE BitLen(_)
BitLen(n) == IF n = 0 THEN 0 ELSE 1 + BitLen(n \div 2)

FZero == [sg |-> 0, m |-> 0, e |-> 0]

\* The f32 nearest to (n + f) * 2^e, where 0 < f < 1 if sticky = 1 and f = 0
\* otherwise; ties go to the even mantissa.  With sticky = 1 the callers pass
\* an n of at least 26 bits.
RoundNE(sg, n, e, sticky) ==
    IF n = 0 THEN FZero
    ELSE LET bits == BitLen(n) IN
         IF bits <= 24
         THEN [sg |-> sg, m |-> n * 2^(24 - bits), e |-> e - (24 - bits)]
         ELSE LET sh   == bits - 24
                  q    == n \div 2^sh
                  r    == n % 2^sh
                  half == 2^(sh - 1)
                  up   == \/ r > half
                          \/ r = half /\ (sticky = 1 \/ q % 2 = 1)
                  m1   == IF up THEN q + 1 ELSE q
              IN IF m1 = 16777216
                 THEN [sg |-> sg, m |-> 8388608, e |-> e + sh + 1]
                 ELSE [sg |-> sg, m |-> m1, e |-> e + sh]

\* `n as f32` for an unsigned integer n.
FromInt(n) == RoundNE(0, n, 0, 0)

FNeg(a) == IF a.m = 0 THEN a ELSE [a EXCEPT !.sg = 1 - a.sg]

\* |a| < |b|
MagLt(a, b) ==
    IF a.m = 0 THEN b.m # 0
    ELSE IF b.m = 0 THEN FALSE
    ELSE a.e < b.e \/ (a.e = b.e /\ a.m < b.m)

FLt(a, b) ==
    IF a.sg = 0 /\ b.sg = 0 THEN MagLt(a, b)
    ELSE IF a.sg = 1 /\ b.sg = 1 THEN MagLt(b, a)
    ELSE a.sg = 1 /\ (a.m # 0 \/ b.m # 0)

FEq(a, b) == (a.m = 0 /\ b.m = 0) \/ a = b

FLe(a, b) == FLt(a, b) \/ FEq(a, b)

FMul(a, b) ==
    IF a.m = 0 \/ b.m = 0 THEN FZero
    ELSE LET a1  == a.m \div 4096
             a0  == a.m % 4096
             b1  == b.m \div 4096
             b0  == b.m % 4096
             mid == a1 * b0 + a0 * b1
             lof == a0 * b0 + (mid % 4096) * 4096
             hi  == a1 * b1 + (mid \div 4096) + (lof \div 16777216)
             lo  == lof % 16777216
             n   == hi * 4 + (lo \div 4194304)
             st  == IF lo % 4194304 = 0 THEN 0 ELSE 1
         IN RoundNE((a.sg + b.sg) % 2, n, a.e + b.e + 22, st)

\* b is never zero where the crate divides.
FDiv(a, b) ==
    IF a.m = 0 THEN FZero
    ELSE LET q0 == a.m \div b.m
             r0 == a.m % b.m
             q1 == q0 * 64 + ((r0 * 64) \div b.m)
             r1 == (r0 * 64) % b.m
             q2 == q1 * 64 + ((r1 * 64) \div b.m)
             r2 == (r1 * 64) % b.m
             q3 == q2 * 64 + ((r2 * 64) \div b.m)
             r3 == (r2 * 64) % b.m
             q4 == q3 * 64 + ((r3 * 64) \div b.m)
             r4 == (r3 * 64) % b.m
             q5 == q4 * 4 + ((r4 * 4) \div b.m)
             r5 == (r4 * 4) % b.m
         IN RoundNE((a.sg + b.sg) % 2, q5, a.e - b.e - 26,
                    IF r5 = 0 THEN 0 ELSE 1)

\* hi and lo are non-zero with |hi| >= |lo|; the sum of the magnitudes.
AddMag(sg, hi, lo) ==
    LET d  == hi.e - lo.e
        A  == hi.m * 8
        B  == IF d >= 27 THEN 0 ELSE (lo.m * 8) \div 2^d
        st == IF d >= 27 THEN 1
              ELSE IF (lo.m * 8) % 2^d = 0 THEN 0 ELSE 1
    IN RoundNE(sg, A + B, hi.e - 3, st)

\* hi and lo are non-zero with |hi| >= |lo|; the difference of the magnitudes.
SubMag(sg, hi, lo) ==
    LET d  == hi.e - lo.e
        A  == hi.m * 8
        B  == IF d >= 27 THEN 0 ELSE (lo.m * 8) \div 2^d
        st == IF d >= 27 THEN 1
              ELSE IF (lo.m * 8) % 2^d = 0 THEN 0 ELSE 1
    IN RoundNE(sg, A - B - st, hi.e - 3, st)

FAdd(a, b) ==
    IF a.m = 0 THEN b
    ELSE IF b.m = 0 THEN a
    ELSE IF a.sg = b.sg
         THEN IF MagLt(a, b) THEN AddMag(a.sg, b, a) ELSE AddMag(a.sg, a, b)
         ELSE IF MagLt(a, b) THEN SubMag(b.sg, b, a) ELSE SubMag(a.sg, a, b)

FSub(a, b) == FAdd(a, FNeg(b))

\* `a.round() as u8`: round half away from zero, then the saturating cast.
RoundToU8(a) ==
    IF a.sg = 1 \/ a.m = 0 THEN 0
    ELSE IF a.e >= 0 THEN 255
    ELSE IF -a.e > 25 THEN 0
    ELSE LET s  == -a.e
             ip == a.m \div 2^s
             fr == a.m % 2^s
             r  == IF fr >= 2^(s - 1) THEN ip + 1 ELSE ip
         IN IF r > 255 THEN 255 ELSE r

----------------------------------------------------------------------------
(* Integer helpers: bytes, bit operations, indexing *)

RECURSIVE BitAnd(_, _)
BitAnd(a, b) ==
    IF a = 0 \/ b = 0 THEN 0
    ELSE (a % 2) * (b % 2) + 2 * BitAnd(a \div 2, b \div 2)

RECURSIVE BitOr(_, _)
BitOr(a, b) ==
    IF a = 0 THEN b
    ELSE IF b = 0 THEN a
    ELSE (IF a % 2 = 1 \/ b % 2 = 1 THEN 1 ELSE 0) + 2 * BitOr(a \div 2, b \div 2)

\* `v << n` on the widths used; the shifted values stay below 2^28.
Shl(v, n) == v * 2^n

\* source[i] with Rust's 0-based index; defined only when InBounds.
InBounds(source, i) == 0 <= i /\ i < Len(source)
At(source, i) == source[i + 1]

----------------------------------------------------------------------------
(* fn map, lib.rs *)

\* Mutant of map: the offset dmin left out.
map_no_offset(value, vmin, vmax, dmin, dmax) ==
    FMul(FromInt(value - vmin),
         FDiv(FromInt(dmax - dmin), FromInt(vmax - vmin)))

map(value, vmin, vmax, dmin, dmax) ==
    FAdd(FMul(FromInt(value - vmin),
              FDiv(FromInt(dmax - dmin), FromInt(vmax - vmin))),
         FromInt(dmin))

----------------------------------------------------------------------------
(* struct HSL, hsl.rs *)

HSL_new(hue, sat, lum) == [hue |-> hue, sat |-> sat, lum |-> lum]

F32_one == FromInt(1)

F32_third == FDiv(FromInt(1), FromInt(3))

\* The three `if h < ...` of hue_to_rgb, h being the wrapped hue.
hue_to_rgb_h(a, b, h) ==
    IF FLt(h, FDiv(FromInt(1), FromInt(6)))
    THEN FAdd(a, FMul(FMul(FSub(b, a), FromInt(6)), h))
    ELSE IF FLt(h, FDiv(FromInt(1), FromInt(2)))
    THEN b
    ELSE IF FLt(h, FDiv(FromInt(2), FromInt(3)))
    THEN FAdd(a, FMul(FMul(FSub(b, a),
                            FSub(FDiv(FromInt(2), FromInt(3)), h)),
                      FromInt(6)))
    ELSE a

hue_to_rgb(a, b, hue) ==
    hue_to_rgb_h(a, b,
                 IF FLt(hue, FZero) THEN FAdd(hue, F32_one)
                 ELSE IF FLt(F32_one, hue) THEN FSub(hue, F32_one)
                 ELSE hue)

\* The end of rgb(): the three channels from a, b and the normalized hue.
rgb_channels(a, b, hue) ==
    <<RoundToU8(FMul(hue_to_rgb(a, b, FAdd(hue, F32_third)), FromInt(255))),
      RoundToU8(FMul(hue_to_rgb(a, b, hue), FromInt(255))),
      RoundToU8(FMul(hue_to_rgb(a, b, FSub(hue, F32_third)), FromInt(255)))>>

\* `let a = lum * 2.0 - b` and what follows it.
rgb_from_b(hue, lum, b) ==
    rgb_channels(FSub(FMul(lum, FromInt(2)), b), b, hue)

\* `let b = if lum <= 0.5 ...` and what follows it, on the normalized values.
rgb_normalized(hue, sat, lum) ==
    rgb_from_b(hue, lum,
               IF FLe(lum, FDiv(FromInt(1), FromInt(2)))
               THEN FMul(lum, FAdd(sat, F32_one))
               ELSE FSub(FAdd(lum, sat), FMul(lum, sat)))

rgb(self) ==
    rgb_normalized(FDiv(self.hue, FromInt(360)), FDiv(self.sat, FromInt(100)),
                   FDiv(self.lum, FromInt(100)))

----------------------------------------------------------------------------
(* enum Mode, struct IdenticonJSOptions, lib.rs *)

GitHub == [tag |-> "GitHub"]

IdenticonJS(options) ==
    [tag |-> "IdenticonJS", saturation |-> options.saturation,
     brightness |-> options.brightness]

\* IdenticonJSOptions::default(): saturation 0.7, brightness 0.5.
IdenticonJSOptions_default ==
    [saturation |-> FDiv(FromInt(7), FromInt(10)),
     brightness |-> FDiv(FromInt(5), FromInt(10))]

----------------------------------------------------------------------------
(* struct Identicon, lib.rs *)

\* Mutant of new: the buffer as large as the 5 x 70 sprite.
new_sprite_sized(source) == [source |-> source, size |-> 350, mode |-> GitHub]

new(source) == [source |-> source, size |-> 420, mode |-> GitHub]

mode(self, m) == [self EXCEPT !.mode = m]

Panic == [panic |-> TRUE]

\* Mutant of github_h: the mask 0x0f written 0xff.
github_h_wide(source) ==
    BitOr(Shl(BitAnd(At(source, 12), 255), 8), At(source, 13))

\* GitHub arm: `let h = (h1 | h2) as u32`.
github_h(source) ==
    BitOr(Shl(BitAnd(At(source, 12), 15), 8), At(source, 13))

\* Mutant of github_hsl: the saturation and luminance bytes exchanged.
github_hsl_swapped(source) ==
    HSL_new(map(github_h(source), 0, 4095, 0, 360),
            FSub(FromInt(65), map(At(source, 15), 0, 255, 0, 20)),
            FSub(FromInt(75), map(At(source, 14), 0, 255, 0, 20)))

\* GitHub arm: the HSL value built from bytes 12..15.
github_hsl(source) ==
    HSL_new(map(github_h(source), 0, 4095, 0, 360),
            FSub(FromInt(65), map(At(source, 14), 0, 255, 0, 20)),
            FSub(FromInt(75), map(At(source, 15), 0, 255, 0, 20)))

\* Mutant of identiconjs_h: the four bytes taken from the front.
identiconjs_h_front(source) ==
    BitOr(Shl(BitOr(Shl(BitOr(Shl(BitAnd(At(source, 0), 15), 8),
                              At(source, 1)), 8),
                    At(source, 2)), 8),
          At(source, 3))

\* IdenticonJS arm: h after the three `h = h << 8 | ...`, with l the length.
identiconjs_h(source) ==
    BitOr(Shl(BitOr(Shl(BitOr(Shl(BitAnd(At(source, Len(source) - 4), 15), 8),
                              At(source, Len(source) - 3)), 8),
                    At(source, Len(source) - 2)), 8),
          At(source, Len(source) - 1))

\* IdenticonJS arm: the HSL value built from the last four bytes.
identiconjs_hsl(source, saturation, brightness) ==
    HSL_new(map(identiconjs_h(source), 0, 268435455, 0, 360),
            FMul(saturation, FromInt(100)),
            FMul(brightness, FromInt(100)))

\* Mutant of foreground_hsl: a byte missing from the source read as 0.
foreground_hsl_lenient(self) ==
    IF self.mode.tag = "GitHub"
    THEN [panic |-> FALSE,
          hsl |-> github_hsl(self.source \o [k \in 1..16 |-> 0])]
    ELSE [panic |-> FALSE,
          hsl |-> identiconjs_hsl([k \in 1..4 |-> 0] \o self.source,
                                  self.mode.saturation, self.mode.brightness)]

\* The HSL value foreground() builds, or Panic where a slice index is out of
\* bounds.  In the IdenticonJS arm `l - 4` underflows for l < 4: a debug build
\* panics on the subtraction, a release build wraps to an index far past the
\* slice and panics on the access, so both builds panic.
foreground_hsl(self) ==
    IF self.mode.tag = "GitHub"
    THEN IF ~InBounds(self.source, 12) \/ ~InBounds(self.source, 13)
            \/ ~InBounds(self.source, 14) \/ ~InBounds(self.source, 15)
         THEN Panic
         ELSE [panic |-> FALSE, hsl |-> github_hsl(self.source)]
    ELSE IF Len(self.source) < 4 \/ ~InBounds(self.source, Len(self.source) - 4)
         THEN Panic
         ELSE [panic |-> FALSE,
               hsl |-> identiconjs_hsl(self.source, self.mode.saturation,
                                       self.mode.brightness)]

\* `.rgb()` on the value built, the panic passed on.
foreground_of(r) ==
    IF r.panic THEN Panic
    ELSE [panic |-> FALSE, hsl |-> r.hsl, color |-> rgb(r.hsl)]

foreground(self) == foreground_of(foreground_hsl(self))

----------------------------------------------------------------------------
(* mod nibbler: the nibbles of the bytes, high nibble first *)

Nibbler_new(source) ==
    [k \in 1..(2 * Len(source)) |->
        IF k % 2 = 1 THEN source[(k + 1) \div 2] \div 16
                     ELSE source[k \div 2] % 16]

----------------------------------------------------------------------------
(* Identicon::pixels, lib.rs *)

ix_of(col, row) == col + (row * 5)

\* Mutant of mirror_ix_of: the mirror column one too far left.
mirror_ix_off_by_one(col, row) == (3 - col) + (row * 5)

mirror_ix_of(col, row) == (4 - col) + (row * 5)

\* The body of the inner loop for rows row..4 of one column: st is
\* [pixels, nibbles], nibbles the part of the iterator not yet consumed.
RECURSIVE pixels_rows(_, _, _)
pixels_rows(col, row, st) ==
    IF row >= 5 THEN st
    ELSE LET paint == IF st.nibbles = <<>> THEN FALSE ELSE Head(st.nibbles)
             rest  == IF st.nibbles = <<>> THEN <<>> ELSE Tail(st.nibbles)
             px    == [st.pixels EXCEPT ![ix_of(col, row)] = paint,
                                        ![mirror_ix_of(col, row)] = paint]
         IN pixels_rows(col, row + 1, [pixels |-> px, nibbles |-> rest])

\* The outer loop over the columns still to visit.
RECURSIVE pixels_cols(_, _)
pixels_cols(cols, st) ==
    IF cols = <<>> THEN st
    ELSE pixels_cols(Tail(cols), pixels_rows(Head(cols), 0, st))

\* Mutant of pixels_col_order: the columns not reversed.
pixels_col_order_forward == <<0, 1, 2>>

\* (0..3).rev()
pixels_col_order == <<2, 1, 0>>

pixels(self) ==
    LET nib     == Nibbler_new(self.source)
        nibbles == [k \in 1..Len(nib) |-> nib[k] % 2 = 0]
        start   == [pixels |-> [i \in 0..24 |-> FALSE], nibbles |-> nibbles]
    IN pixels_cols(pixels_col_order, start).pixels

----------------------------------------------------------------------------
(* Identicon::rect and Identicon::image, lib.rs *)

pixel_size == 70

sprite_size == 5

margin == pixel_size \div 2

background == <<240, 240, 240>>

\* The coordinates at which the model observes an image buffer: the first and
\* last row/column of the buffer and both sides of every edge a sprite block
\* can have.
Probe(size) ==
    {c \in 0..(size - 1) :
        c = 0 \/ c = size - 1 \/ c % pixel_size \in {margin - 1, margin}}

\* ImageBuffer::from_pixel(width, height, pixel), with the ghost field rects:
\* the rectangles handed to rect() so far.
from_pixel(width, height, pixel) ==
    [width |-> width, height |-> height,
     px |-> [p \in Probe(width) \X Probe(height) |-> pixel],
     rects |-> <<>>]

\* Mutant of rect: the ranges x0..=x1 and y0..=y1.
rect_inclusive(image, x0, y0, x1, y1, color) ==
    IF x0 <= x1 /\ y0 <= y1 /\ (x1 >= image.width \/ y1 >= image.height)
    THEN Panic
    ELSE [panic |-> FALSE,
          image |->
            [image EXCEPT
               !.px = [p \in DOMAIN image.px |->
                         IF x0 <= p[1] /\ p[1] <= x1 /\ y0 <= p[2] /\ p[2] <= y1
                         THEN color ELSE image.px[p]],
               !.rects = Append(image.rects,
                                [x0 |-> x0, y0 |-> y0, x1 |-> x1, y1 |-> y1])]]

\* put_pixel panics for a coordinate outside the buffer, so rect panics iff
\* its (non-empty) range of coordinates holds one.
rect(image, x0, y0, x1, y1, color) ==
    IF x0 < x1 /\ y0 < y1 /\ (x1 > image.width \/ y1 > image.height)
    THEN Panic
    ELSE [panic |-> FALSE,
          image |->
            [image EXCEPT
               !.px = [p \in DOMAIN image.px |->
                         IF x0 <= p[1] /\ p[1] < x1 /\ y0 <= p[2] /\ p[2] < y1
                         THEN color ELSE image.px[p]],
               !.rects = Append(image.rects,
                                [x0 |-> x0, y0 |-> y0, x1 |-> x1, y1 |-> y1])]]

\* The two nested loops of image() from cell i on: chunks(sprite_size) and
\* enumerate() give row = i / sprite_size and col = i % sprite_size.
RECURSIVE image_cells(_, _, _, _)
image_cells(i, pix, fg, image) ==
    IF i >= 25 THEN [panic |-> FALSE, image |-> image]
    ELSE IF ~pix[i] THEN image_cells(i + 1, pix, fg, image)
    ELSE LET row == i \div sprite_size
             col == i % sprite_size
             x   == col * pixel_size
             y   == row * pixel_size
             r   == rect(image, x + margin, y + margin,
                         x + pixel_size + margin, y + pixel_size + margin, fg)
         IN IF r.panic THEN Panic
            ELSE image_cells(i + 1, pix, fg, r.image)

image(self) ==
    LET fg == foreground(self) IN
    IF fg.panic THEN Panic
    ELSE image_cells(0, pixels(self), fg.color,
                     from_pixel(self.size, self.size, background))

----------------------------------------------------------------------------
(* Inputs *)

MaxShort == 3

MaxLen == 17

MaxPad == 13

MaxV == 13

MaxD == 7

\* Byte values: both extremes, a low nibble of 15 under a zero and a non-zero
\* high nibble, and nibbles of both parities in both halves.
ByteVals == {0, 15, 16, 255}

\* Repeating byte patterns: one that paints part of the grid and leaves bytes of
\* both parities at indices 12..15, and the all-zero source, which paints every
\* cell.
Patterns == {<<15, 16, 0>>, <<0>>}

Cyc(p, n) == [i \in 1..n |-> p[((i - 1) % Len(p)) + 1]]

\* The last four bytes of a long source: every pair of values in bytes 1, 2
\* beside equal bytes 3, 4, and the other way round.
Tails == {t \in [1..4 -> ByteVals] : t[1] = t[2] \/ t[3] = t[4]}

\* Every byte sequence over ByteVals up to MaxShort bytes, every pattern cut
\* at every length up to MaxLen, and the patterns of 16..MaxLen bytes ending
\* in the bytes of Tails.
Sources ==
    UNION {[1..n -> ByteVals] : n \in 0..MaxShort}
    \cup {Cyc(p, n) : p \in Patterns, n \in 0..MaxLen}
    \cup {Cyc(p, n - 4) \o t : p \in Patterns, n \in 16..MaxLen, t \in Tails}

\* Sources for two identicons side by side: nothing or 12..MaxPad equal bytes
\* before one of three 4-byte tails, two of which differ only in the high
\* nibble of their first byte.
PairSources ==
    {Cyc(<<b>>, n) \o t :
        b \in {0, 255}, n \in {0} \cup (12..MaxPad),
        t \in {<<15, 255, 0, 16>>, <<255, 255, 0, 16>>, <<0, 255, 0, 16>>}}

\* The default options, and options within the documented 0.0..1.0 that give
\* a grey of RGB (240, 240, 240).
Modes ==
    {GitHub,
     IdenticonJS(IdenticonJSOptions_default),
     IdenticonJS([saturation |-> FZero,
                  brightness |-> FDiv(FromInt(94), FromInt(100))])}

\* Arguments of map() on which no u32 subtraction underflows, and the two
\* calls of test_map.
MapArgs ==
    {a \in (0..MaxV) \X (0..MaxV) \X (0..MaxV) \X (0..MaxD) \X (0..MaxD) :
        a[2] < a[3] /\ a[2] <= a[1] /\ a[1] <= a[3] /\ a[4] <= a[5]}
    \cup {<<0, 0, 100, 20, 120>>, <<100, 0, 100, 20, 120>>}

----------------------------------------------------------------------------
(* State *)

\* idents[i]: the i-th Identicon value of the caller, once constructed.
\* ret[i]:    what the last method call on idents[i] returned.
\* mapret:    the last call of map() and what it returned.
VARIABLES idents, ret, mapret

vars == <<idents, ret, mapret>>

Ids == {1, 2}

NoIdenticon == [live |-> FALSE]

NoRet == [op |-> "none"]

Init ==
    /\ idents = [i \in Ids |-> NoIdenticon]
    /\ ret = [i \in Ids |-> NoRet]
    /\ mapret = [called |-> FALSE]

\* let idents[i] = Identicon::new(source), for a source of the set S
New(i, S) ==
    /\ ~idents[i].live
    /\ \E source \in S :
         idents' = [idents EXCEPT ![i] = [live |-> TRUE, self |-> new(source)]]
    /\ UNCHANGED <<ret, mapret>>

\* let idents[i] = idents[i].mode(m); the value returned by an earlier call
\* on the old identicon is forgotten.
SetMode(i) ==
    /\ idents[i].live
    /\ \E m \in Modes : idents' = [idents EXCEPT ![i].self = mode(@, m)]
    /\ ret' = [ret EXCEPT ![i] = NoRet]
    /\ UNCHANGED mapret

CallForeground(i) ==
    /\ idents[i].live
    /\ ret' = [ret EXCEPT ![i] =
                 [op |-> "foreground", r |-> foreground(idents[i].self)]]
    /\ UNCHANGED <<idents, mapret>>

CallPixels(i) ==
    /\ idents[i].live
    /\ ret' = [ret EXCEPT ![i] =
                 [op |-> "pixels", r |-> pixels(idents[i].self)]]
    /\ UNCHANGED <<idents, mapret>>

CallImage(i) ==
    /\ idents[i].live
    /\ ret' = [ret EXCEPT ![i] =
                 [op |-> "image", r |-> image(idents[i].self)]]
    /\ UNCHANGED <<idents, mapret>>

\* One call of map(); a behaviour makes one.
CallMap ==
    /\ ~mapret.called
    /\ \E a \in MapArgs :
         mapret' = [called |-> TRUE, args |-> a,
                    result |-> map(a[1], a[2], a[3], a[4], a[5])]
    /\ UNCHANGED <<idents, ret>>

\* One identicon through its whole life.
Next ==
    \/ New(1, Sources)
    \/ SetMode(1)
    \/ CallForeground(1)
    \/ CallPixels(1)
    \/ CallImage(1)

Spec == Init /\ [][Next]_vars

\* Two identicons and their foreground colours.
NextPair ==
    \E i \in Ids :
        \/ New(i, PairSources)
        \/ SetMode(i)
        \/ CallForeground(i)

SpecPair == Init /\ [][NextPair]_vars

\* Calls of the free function map().
NextMap == CallMap

SpecMap == Init /\ [][NextMap]_vars

----------------------------------------------------------------------------
(* Properties *)

Self(i) == idents[i].self

\* The last call on identicon i was op and has returned (or panicked).
Ret(i, op) == idents[i].live /\ ret[i].op = op

\* The source is shorter than the mode's arm of foreground() reads.
TooShort(self) ==
    IF self.mode.tag = "GitHub" THEN Len(self.source) < 16
    ELSE Len(self.source) < 4

\* floor(f * 2^10) for an f32 f >= 0 below 2^20.
Fix10(f) ==
    IF f.m = 0 THEN 0
    ELSE IF f.e + 10 >= 0 THEN f.m * 2^(f.e + 10)
    ELSE IF -(f.e + 10) > 30 THEN 0
    ELSE f.m \div 2^(-(f.e + 10))

\* |f - num/den| < 2^-10, decided on floor(f * 2^10).
Near(f, num, den) ==
    LET d == Fix10(f) * den - num * 1024
    IN -2 * den < d /\ d < 2 * den

\* C1: the grid pixels() returns is mirror symmetric, for every source:
\* pixels[col + 5*row] = pixels[(4-col) + 5*row] for all rows and columns.
C1_MirrorSymmetry ==
    \A i \in Ids :
        Ret(i, "pixels") =>
            \A row \in 0..4, col \in 0..4 :
                ret[i].r[col + 5 * row] = ret[i].r[(4 - col) + 5 * row]

\* pixels() has returned a grid with a painted cell in column 0 and an
\* unpainted cell in column 1.
C1_Witness ==
    /\ Ret(1, "pixels")
    /\ \E r1 \in 0..4, r2 \in 0..4 : ret[1].r[5 * r1] /\ ~ret[1].r[1 + 5 * r2]

\* C2: image() (and foreground()) panics exactly on a source shorter than
\* the mode needs (16 bytes for GitHub, 4 for IdenticonJS) and otherwise
\* returns an image (a colour); it never returns a default for a short source.
C2_ShortSourceAborts ==
    \A i \in Ids :
        /\ Ret(i, "image") =>
             /\ ret[i].r.panic <=> TooShort(Self(i))
             /\ ~ret[i].r.panic =>
                  /\ ret[i].r.image.width = Self(i).size
                  /\ ret[i].r.image.height = Self(i).size
        /\ Ret(i, "foreground") =>
             /\ ret[i].r.panic <=> TooShort(Self(i))
             /\ ~ret[i].r.panic => ret[i].r.color \in (0..255) \X (0..255) \X (0..255)

\* image() has panicked in GitHub mode on a source of 15 bytes.
C2_Witness ==
    /\ Ret(1, "image")
    /\ ret[1].r.panic
    /\ Self(1).mode.tag = "GitHub"
    /\ Len(Self(1).source) = 15

\* The last four bytes with the high nibble of the first of them dropped.
Key28(source) ==
    LET l == Len(source)
    IN <<source[l - 3] % 16, source[l - 2], source[l - 1], source[l]>>

\* The 28-bit big-endian value of the same bytes.
H28(source) ==
    LET l == Len(source)
    IN (source[l - 3] % 16) * 16777216 + source[l - 2] * 65536
       + source[l - 1] * 256 + source[l]

\* C3: in IdenticonJS mode two sources of at least 4 bytes with the same last
\* 28 bits and the same options get the same colour, whatever their lengths
\* and earlier bytes; the hue is map() of that 28-bit big-endian value.
C3_TailOnly ==
    /\ \A i \in Ids, j \in Ids :
         ( /\ Ret(i, "foreground") /\ Ret(j, "foreground")
           /\ Self(i).mode.tag = "IdenticonJS"
           /\ Self(j).mode = Self(i).mode
           /\ Len(Self(i).source) >= 4 /\ Len(Self(j).source) >= 4
           /\ Key28(Self(i).source) = Key28(Self(j).source) )
         => /\ ~ret[i].r.panic /\ ~ret[j].r.panic
            /\ ret[i].r.color = ret[j].r.color
            /\ ret[i].r.hsl = ret[j].r.hsl
    /\ \A i \in Ids :
         ( /\ Ret(i, "foreground")
           /\ Self(i).mode.tag = "IdenticonJS"
           /\ Len(Self(i).source) >= 4 )
         => /\ ~ret[i].r.panic
            /\ FEq(ret[i].r.hsl.hue,
                   map(H28(Self(i).source), 0, 268435455, 0, 360))

\* Two IdenticonJS identicons with the same options, of different lengths and
\* with different 4th-from-last bytes, have both returned a colour for the
\* same last 28 bits.
C3_Witness ==
    /\ Ret(1, "foreground") /\ Ret(2, "foreground")
    /\ Self(1).mode.tag = "IdenticonJS"
    /\ Self(2).mode = Self(1).mode
    /\ Len(Self(1).source) # Len(Self(2).source)
    /\ Self(1).source[Len(Self(1).source) - 3]
         # Self(2).source[Len(Self(2).source) - 3]
    /\ Key28(Self(1).source) = Key28(Self(2).source)
    /\ ~ret[1].r.panic /\ ~ret[2].r.panic

\* C4: in GitHub mode the saturation is 65 - source[14]*20/255, in [45, 65],
\* and the luminance is 75 - source[15]*20/255, in [55, 75] (to within
\* 2^-10 of the real value); byte 0 gives exactly 65 / 75 and byte 255
\* exactly 45 / 55.
C4_GitHubSatLum ==
    \A i \in Ids :
        (Ret(i, "foreground") /\ Self(i).mode.tag = "GitHub"
            /\ Len(Self(i).source) >= 16)
        => /\ ~ret[i].r.panic
           /\ FLe(FromInt(45), ret[i].r.hsl.sat)
           /\ FLe(ret[i].r.hsl.sat, FromInt(65))
           /\ FLe(FromInt(55), ret[i].r.hsl.lum)
           /\ FLe(ret[i].r.hsl.lum, FromInt(75))
           /\ Near(ret[i].r.hsl.sat, 65 * 255 - Self(i).source[15] * 20, 255)
           /\ Near(ret[i].r.hsl.lum, 75 * 255 - Self(i).source[16] * 20, 255)
           /\ Self(i).source[15] = 0 => ret[i].r.hsl.sat = FromInt(65)
           /\ Self(i).source[15] = 255 => ret[i].r.hsl.sat = FromInt(45)
           /\ Self(i).source[16] = 0 => ret[i].r.hsl.lum = FromInt(75)
           /\ Self(i).source[16] = 255 => ret[i].r.hsl.lum = FromInt(55)

\* foreground() has returned in GitHub mode for a source whose byte 14 is 255
\* and whose byte 15 is 0: the least saturation beside the greatest
\* luminance.
C4_Witness ==
    /\ Ret(1, "foreground")
    /\ Self(1).mode.tag = "GitHub"
    /\ Len(Self(1).source) >= 16
    /\ Self(1).source[15] = 255
    /\ Self(1).source[16] = 0
    /\ ~ret[1].r.panic

\* C5: every identicon has size 420; image() fails only where foreground()
\* does, the buffer it returns is size x size, and every coordinate (x, y)
\* written while painting a cell has 0 <= x < size and 0 <= y < size.
C5_RasterContainment ==
    \A i \in Ids :
        /\ idents[i].live => Self(i).size = 420
        /\ Ret(i, "image") =>
             /\ ret[i].r.panic => TooShort(Self(i))
             /\ ~ret[i].r.panic =>
                  /\ ret[i].r.image.width = Self(i).size
                  /\ ret[i].r.image.height = Self(i).size
                  /\ \A k \in 1..Len(ret[i].r.image.rects) :
                       LET rc == ret[i].r.image.rects[k] IN
                       /\ \A x \in rc.x0..(rc.x1 - 1) : 0 <= x /\ x < Self(i).size
                       /\ \A y \in rc.y0..(rc.y1 - 1) : 0 <= y /\ y < Self(i).size

\* image() has returned after painting the cell of the last row and column,
\* whose block ends at 385.
C5_Witness ==
    /\ Ret(1, "image")
    /\ ~ret[1].r.panic
    /\ \E k \in 1..Len(ret[1].r.image.rects) :
         /\ ret[1].r.image.rects[k].x1 = 385
         /\ ret[1].r.image.rects[k].y1 = 385

\* The real affine value is num/den; the f32 r is within 2^-22 of it,
\* relatively (r = 0 where it is 0).
WithinRounding(r, num, den) ==
    IF num = 0 THEN r.m = 0
    ELSE /\ r.m # 0 /\ r.sg = 0 /\ r.e <= 0
         /\ LET d == r.m * den - num * 2^(-r.e)
                t == (num * 2^(-r.e)) \div 4194304
            IN -t <= d /\ d <= t

\* C6, as amended: for arguments below 2^24 with vmin < vmax, dmin <= dmax
\* and vmin <= value <= vmax, map() is dmin at value = vmin, never below
\* dmin, non-decreasing in value, and within f32 rounding (a relative 2^-22)
\* of (value-vmin)*(dmax-dmin)/(vmax-vmin) + dmin; the two calls of test_map
\* give exactly 20 and 120.
C6_MapRounded ==
    mapret.called =>
        LET value == mapret.args[1]
            vmin  == mapret.args[2]
            vmax  == mapret.args[3]
            dmin  == mapret.args[4]
            dmax  == mapret.args[5]
        IN /\ value = vmin => mapret.result = FromInt(dmin)
           /\ FLe(FromInt(dmin), mapret.result)
           /\ value > vmin =>
                FLe(map(value - 1, vmin, vmax, dmin, dmax), mapret.result)
           /\ WithinRounding(mapret.result,
                             (value - vmin) * (dmax - dmin) + dmin * (vmax - vmin),
                             vmax - vmin)
           /\ mapret.args = <<0, 0, 100, 20, 120>> => mapret.result = FromInt(20)
           /\ mapret.args = <<100, 0, 100, 20, 120>> => mapret.result = FromInt(120)

\* C6 as claimed: map() is dmax at value = vmax and always within
\* [dmin, dmax], as the exact affine formula would be.
C6_MapExact ==
    mapret.called =>
        /\ mapret.args[1] = mapret.args[3] =>
             mapret.result = FromInt(mapret.args[5])
        /\ FLe(FromInt(mapret.args[4]), mapret.result)
        /\ FLe(mapret.result, FromInt(mapret.args[5]))

\* map() has returned, at value = vmax, a result above dmax.
C6_Witness ==
    /\ mapret.called
    /\ mapret.args[1] = mapret.args[3]
    /\ FLt(FromInt(mapret.args[5]), mapret.result)

\* C7, as amended: the hue of every HSL value foreground() builds, in either
\* mode, lies in the closed interval [0, 360].
C7_HueClosedRange ==
    \A i \in Ids :
        (Ret(i, "foreground") /\ ~TooShort(Self(i)))
        => /\ ~ret[i].r.panic
           /\ FLe(FZero, ret[i].r.hsl.hue)
           /\ FLe(ret[i].r.hsl.hue, FromInt(360))

\* C7 as claimed: the hue lies in the half-open interval [0, 360).
C7_HueHalfOpen ==
    \A i \in Ids :
        (Ret(i, "foreground") /\ ~TooShort(Self(i)))
        => /\ ~ret[i].r.panic
           /\ FLe(FZero, ret[i].r.hsl.hue)
           /\ FLt(ret[i].r.hsl.hue, FromInt(360))

\* foreground() has built a hue of exactly 360 in GitHub mode.
C7_Witness ==
    /\ Ret(1, "foreground")
    /\ Self(1).mode.tag = "GitHub"
    /\ ~ret[1].r.panic
    /\ ret[1].r.hsl.hue = FromInt(360)

\* The last four bytes of a source of at least four.
Last4(source) == SubSeq(source, Len(source) - 3, Len(source))

\* C8: in GitHub mode two sources of at least 16 bytes that end in the same
\* 4 bytes get the same colour.
C8_GitHubTailOnly ==
    \A i \in Ids, j \in Ids :
        ( /\ Ret(i, "foreground") /\ Ret(j, "foreground")
          /\ Self(i).mode.tag = "GitHub" /\ Self(j).mode.tag = "GitHub"
          /\ Len(Self(i).source) >= 16 /\ Len(Self(j).source) >= 16
          /\ Last4(Self(i).source) = Last4(Self(j).source) )
        => /\ ~ret[i].r.panic /\ ~ret[j].r.panic
           /\ ret[i].r.color = ret[j].r.color

\* Nibble k (from 0) of the source, the high nibble of a byte before its low.
NibbleAt(source, k) ==
    IF k % 2 = 0 THEN source[(k \div 2) + 1] \div 16
    ELSE source[(k \div 2) + 1] % 16

\* The nibble that decides cell (col, row): columns 2, 1, 0 in that order,
\* five rows each, either half of the grid.
CellNibble(col, row) ==
    5 * (2 - (IF col <= 4 - col THEN col ELSE 4 - col)) + row

\* C9: cell (col, row) of the grid pixels() returns is painted iff nibble
\* k = 5*(2 - min(col, 4-col)) + row of the source exists and is even; the
\* cells whose nibble is missing are unpainted.
C9_FillOrder ==
    \A i \in Ids :
        Ret(i, "pixels") =>
            \A col \in 0..4, row \in 0..4 :
                ret[i].r[col + 5 * row]
                    = ( /\ CellNibble(col, row) < 2 * Len(Self(i).source)
                        /\ NibbleAt(Self(i).source, CellNibble(col, row)) % 2 = 0 )

\* pixels() has returned for a source of 3 bytes (6 nibbles), with the cell
\* of nibble 5 painted.
C9_Witness ==
    /\ Ret(1, "pixels")
    /\ Len(Self(1).source) = 3
    /\ ret[1].r[1]
    /\ \A k \in 0..24 : (k % 5 \in {0, 4}) => ~ret[1].r[k]

\* Pixel p lies in the 70 x 70 block of a painted cell of the grid pix.
InPainted(pix, p) ==
    \E col \in 0..4, row \in 0..4 :
        /\ pix[col + 5 * row]
        /\ col * 70 + 35 <= p[1] /\ p[1] < col * 70 + 105
        /\ row * 70 + 35 <= p[2] /\ p[2] < row * 70 + 105

\* Every observed pixel of px is fg inside a painted block and RGB
\* (240, 240, 240) outside, and (240, 240, 240) in the 35-pixel margin.
RasterIs(px, pix, fg) ==
    \A p \in DOMAIN px :
        /\ px[p] = IF InPainted(pix, p) THEN fg ELSE <<240, 240, 240>>
        /\ (p[1] < 35 \/ p[1] >= 385 \/ p[2] < 35 \/ p[2] >= 385)
             => px[p] = <<240, 240, 240>>

\* A pixel of px has the colour fg iff it lies in a painted block.
RasterIff(px, pix, fg) ==
    \A p \in DOMAIN px : (px[p] = fg) <=> InPainted(pix, p)

\* C10, as amended: a pixel of the image is the foreground colour if it lies
\* in the block of a painted cell and RGB (240, 240, 240) otherwise; it has
\* the foreground colour iff it lies in such a block whenever the foreground
\* colour is not (240, 240, 240) itself.
C10_Raster ==
    \A i \in Ids :
        (Ret(i, "image") /\ ~ret[i].r.panic)
        => /\ RasterIs(ret[i].r.image.px, pixels(Self(i)),
                       foreground(Self(i)).color)
           /\ foreground(Self(i)).color # <<240, 240, 240>>
                => RasterIff(ret[i].r.image.px, pixels(Self(i)),
                             foreground(Self(i)).color)

\* C10 as claimed: a pixel of the image has the foreground colour iff it
\* lies in the block of a painted cell.
C10_RasterIff ==
    \A i \in Ids :
        (Ret(i, "image") /\ ~ret[i].r.panic)
        => RasterIff(ret[i].r.image.px, pixels(Self(i)),
                     foreground(Self(i)).color)

\* image() has returned a buffer with painted and unpainted cells whose
\* foreground colour is not the background's.
C10_Witness ==
    /\ Ret(1, "image")
    /\ ~ret[1].r.panic
    /\ Len(ret[1].r.image.rects) \in 1..24
    /\ ret[1].r.image.px[<<35, 35>>] # <<240, 240, 240>>
    /\ ret[1].r.image.px[<<34, 35>>] = <<240, 240, 240>>

====
